---- MODULE Spec2Model ----
(***************************************************************************)
(* Model of src/main.py: the Record Locator (get_next_unprocessed_record), *)
(* the Chunk Splitter (split_audio), the Transcription Engine              *)
(* (transcribe_audio), the deferred write-back (process_transcription)     *)
(* and the two endpoints (read_index, done).                               *)
(*                                                                         *)
(* A Python str is a sequence of characters; the characters are the        *)
(* one-element tokens below, "SP" a blank and "NL" a newline.              *)
(***************************************************************************)
EXTENDS Integers, Sequences, FiniteSets, TLC

VARIABLES values,    \* the worksheet grid, as worksheet.get_all_values() returns it
          located,   \* the last direct Record Locator call (read_index or a bare call)
          split,     \* the last direct split_audio call
          files,     \* the files on disk: uploads and chunk files
          tasks,     \* per submission: the /done call and its deferred task
          nsubs,     \* number of /done submissions received
          lastWrite, \* per row: the write-back that executed last
          values0    \* the grid as it was before the system ran

vars == <<values, located, split, files, tasks, nsubs, lastWrite, values0>>

----------------------------------------------------------------------------
(* Bounds of the model *)

MaxRows == 3
MaxChunks == 3
MaxSubs == 2

----------------------------------------------------------------------------
(* Python strings *)

Whitespace == {"SP", "NL"}

EmptyStr == <<>>

RECURSIVE lstrip(_)
lstrip(s) ==
    IF s = <<>> THEN <<>>
    ELSE IF Head(s) \in Whitespace THEN lstrip(Tail(s))
    ELSE s

RECURSIVE rstrip(_)
rstrip(s) ==
    IF s = <<>> THEN <<>>
    ELSE IF s[Len(s)] \in Whitespace THEN rstrip(SubSeq(s, 1, Len(s) - 1))
    ELSE s

\* str.strip() with no argument: removes leading and trailing whitespace
strip(s) == rstrip(lstrip(s))

----------------------------------------------------------------------------
(* Record Locator *)

\* row_values[idx] if len(row_values) > idx else ""   (idx is 0-based)
Cell(row_values, idx) ==
    IF Len(row_values) > idx THEN row_values[idx + 1] ELSE EmptyStr

NoRecord == [kind |-> "none"]

Raised == [kind |-> "raise"]

RecordOf(i, row_values) ==
    [kind |-> "record",
     row |-> i,
     url |-> Cell(row_values, 0),
     company |-> Cell(row_values, 1),
     connected_on |-> Cell(row_values, 2),
     first_name |-> Cell(row_values, 3),
     last_name |-> Cell(row_values, 4),
     recording |-> Cell(row_values, 5)]

\* Python list indexing vals[j]: a negative j counts from the end
InRange(vals, j) == (j >= 0 /\ j < Len(vals)) \/ (j < 0 /\ -j <= Len(vals))

Item(vals, j) == IF j >= 0 THEN vals[j + 1] ELSE vals[Len(vals) + j + 1]

\* len(row_values) < 6 or not row_values[5].strip()
IsUnprocessed(row_values) ==
    Len(row_values) < 6 \/ strip(row_values[6]) = EmptyStr

\* the loop body of get_next_unprocessed_record from index i on
RECURSIVE ScanFrom(_, _)
ScanFrom(vals, i) ==
    IF i >= Len(vals) + 1 THEN NoRecord
    ELSE IF ~InRange(vals, i - 1) THEN Raised
    ELSE IF IsUnprocessed(Item(vals, i - 1)) THEN RecordOf(i, Item(vals, i - 1))
    ELSE ScanFrom(vals, i + 1)

\* the scan started at current_row itself instead of the row after it
get_next_unprocessed_record_from_current(vals, current_row) ==
    ScanFrom(vals, current_row)

get_next_unprocessed_record(vals, current_row) == ScanFrom(vals, current_row + 1)

----------------------------------------------------------------------------
(* Chunk Splitter *)

\* int(a / b) for b > 0: Python's int() truncates toward zero
TruncDiv(a, b) == IF a >= 0 THEN a \div b ELSE -((-a) \div b)

Min(a, b) == IF a <= b THEN a ELSE b

\* int((max_size_mb * 1024 * 1024) / (audio.frame_rate * audio.frame_width)) * 1000
chunk_size_ms(audio, max_size_mb) ==
    TruncDiv(max_size_mb * 1024 * 1024, audio.frame_rate * audio.frame_width) * 1000

\* the slice end not clamped to the recording
ChunkAt_unclamped(i, total_length_ms, step) ==
    [name |-> i \div step, from |-> i, to |-> i + step]

\* one pass of the loop body: audio[i:i + step] clamps the slice to the
\* recording, the path carries i // step
ChunkAt(i, total_length_ms, step) ==
    [name |-> i \div step, from |-> i, to |-> Min(i + step, total_length_ms)]

\* for i in range(0, total_length_ms, step), for step > 0
RECURSIVE ChunksFrom(_, _, _)
ChunksFrom(i, total_length_ms, step) ==
    IF i >= total_length_ms THEN <<>>
    ELSE <<ChunkAt(i, total_length_ms, step)>>
             \o ChunksFrom(i + step, total_length_ms, step)

\* range() raises ValueError on a zero step and is empty on a negative one
split_audio(audio, max_size_mb) ==
    LET step == chunk_size_ms(audio, max_size_mb) IN
    IF step = 0 THEN [kind |-> "raise", chunks |-> <<>>]
    ELSE IF step < 0 THEN [kind |-> "ok", chunks |-> <<>>]
    ELSE [kind |-> "ok", chunks |-> ChunksFrom(0, audio.length_ms, step)]

----------------------------------------------------------------------------
(* Tabular data source *)

\* row_values extended with empty cells up to column F
PadToF(row_values) ==
    [c \in 1..(IF Len(row_values) > 6 THEN Len(row_values) ELSE 6) |->
        IF c <= Len(row_values) THEN row_values[c] ELSE EmptyStr]

BlankRow == [c \in 1..6 |-> EmptyStr]

\* a write that leaves a cell alone once it holds text
update_acell_keep_first(vals, row, text) ==
    IF row < 1 THEN [kind |-> "raise", values |-> vals]
    ELSE IF row <= Len(vals) /\ Len(vals[row]) >= 6 /\ vals[row][6] # EmptyStr
        THEN [kind |-> "ok", values |-> vals]
    ELSE IF row <= Len(vals)
        THEN [kind |-> "ok",
              values |-> [vals EXCEPT ![row] = [PadToF(@) EXCEPT ![6] = text]]]
    ELSE [kind |-> "ok",
          values |-> [i \in 1..row |->
                         IF i <= Len(vals) THEN vals[i]
                         ELSE IF i < row THEN BlankRow
                         ELSE [BlankRow EXCEPT ![6] = text]]]

\* worksheet.update_acell(f"F{row}", text): the label must name a row >= 1;
\* a row below the last one with data comes into being when a value lands in it
update_acell(vals, row, text) ==
    IF row < 1 THEN [kind |-> "raise", values |-> vals]
    ELSE IF row <= Len(vals)
        THEN [kind |-> "ok",
              values |-> [vals EXCEPT ![row] = [PadToF(@) EXCEPT ![6] = text]]]
    ELSE IF text = EmptyStr THEN [kind |-> "ok", values |-> vals]
    ELSE [kind |-> "ok",
          values |-> [i \in 1..row |->
                         IF i <= Len(vals) THEN vals[i]
                         ELSE IF i < row THEN BlankRow
                         ELSE [BlankRow EXCEPT ![6] = text]]]

----------------------------------------------------------------------------
(* Transcription Engine and deferred task *)

CeilingMb == 25

\* os.path.getsize(file_path) / (1024 * 1024) > 25
OverCeiling(upload) == upload.size > CeilingMb * 1024 * 1024

\* the new text put in front of the accumulator
accumulate_prepend(transcription_text, transcription) ==
    transcription \o <<"NL">> \o transcription_text

\* transcription_text += transcription + "\n"
accumulate(transcription_text, transcription) ==
    transcription_text \o transcription \o <<"NL">>

UploadPath(s) == <<s>>

\* f"{file_path}_chunk{i // chunk_size_ms}.mp3"
ChunkPath(s, chunk) == <<s, chunk.name>>

NoTask ==
    [pc |-> "none", row |-> 0, upload |-> [size |-> 0], response |-> [kind |-> "pending"],
     chunks |-> <<>>, idx |-> 0, acc |-> EmptyStr, text |-> EmptyStr,
     calls |-> <<>>, wrote |-> FALSE, failure |-> "none"]

NoWrite == [s |-> 0, text |-> EmptyStr]

\* the locals of a task whose function has returned or raised are gone
Finished(t, pc, failure) ==
    [t EXCEPT !.pc = pc, !.failure = failure, !.upload = [size |-> 0],
              !.chunks = <<>>, !.idx = 0,
              !.acc = EmptyStr, !.text = EmptyStr, !.calls = <<>>]

\* what /done answers for a Record Locator outcome
ResponseFor(next_record) ==
    IF next_record.kind = "raise" THEN [kind |-> "error"]
    ELSE IF next_record.kind = "none" THEN [kind |-> "message"]
    ELSE next_record

\* a handler that waits for the transcription and its write-back before it
\* looks for the next record
done_awaits_task(s, k, upload) ==
    /\ s = nsubs + 1
    /\ tasks[s].pc = "none"
    /\ nsubs' = s
    /\ files' = files \cup {UploadPath(s)}
    /\ LET r == update_acell(values, k, <<"a">>)
           next_record == get_next_unprocessed_record(r.values, k)
       IN /\ values' = r.values
          /\ tasks' = [tasks EXCEPT ![s] =
                     [Finished(@, IF r.kind = "raise" THEN "failed" ELSE "done",
                                  IF r.kind = "raise" THEN "sheet" ELSE "none")
                        EXCEPT !.row = k,
                               !.wrote = (r.kind = "ok"),
                               !.response = ResponseFor(next_record)]]
    /\ UNCHANGED <<located, split, lastWrite, values0>>

\* POST /done: save the upload, schedule the task, answer with the next record.
\* An exception in the handler loses the scheduled task with the response.
done(s, k, upload) ==
    /\ s = nsubs + 1
    /\ tasks[s].pc = "none"
    /\ nsubs' = s
    /\ files' = files \cup {UploadPath(s)}
    /\ LET next_record == get_next_unprocessed_record(values, k) IN
         tasks' = [tasks EXCEPT ![s] =
                     [@ EXCEPT !.pc = IF next_record.kind = "raise"
                                        THEN "dropped" ELSE "scheduled",
                               !.row = k,
                               !.upload = upload,
                               !.response = ResponseFor(next_record)]]
    /\ UNCHANGED <<values, located, split, lastWrite, values0>>

\* transcribe_audio up to its first speech-to-text call
start_transcription(s) ==
    /\ tasks[s].pc = "scheduled"
    /\ IF OverCeiling(tasks[s].upload)
         THEN LET r == split_audio(tasks[s].upload, CeilingMb) IN
              IF r.kind = "raise"
                THEN /\ tasks' = [tasks EXCEPT ![s] = Finished(@, "failed", "split")]
                     /\ files' = files
              ELSE /\ files' = files \cup
                                 {ChunkPath(s, r.chunks[j]) : j \in 1..Len(r.chunks)}
                   /\ tasks' = [tasks EXCEPT ![s] =
                        IF r.chunks = <<>>
                          THEN [@ EXCEPT !.pc = "write", !.text = strip(EmptyStr)]
                          ELSE [@ EXCEPT !.pc = "chunks", !.chunks = r.chunks,
                                         !.idx = 1]]
       ELSE /\ tasks' = [tasks EXCEPT ![s].pc = "whole"]
            /\ files' = files
    /\ UNCHANGED <<values, located, split, nsubs, lastWrite, values0>>

\* one pass of the chunk loop whose speech-to-text call returns text t
stt_chunk_ok(s, t) ==
    /\ tasks[s].pc = "chunks"
    /\ LET chunk == tasks[s].chunks[tasks[s].idx]
           acc == accumulate(tasks[s].acc, t)
       IN /\ files' = files \ {ChunkPath(s, chunk)}
          /\ tasks' = [tasks EXCEPT ![s] =
                [@ EXCEPT !.calls = Append(@, [path |-> ChunkPath(s, chunk), text |-> t]),
                          !.acc = acc,
                          !.idx = @ + 1,
                          !.pc = IF tasks[s].idx = Len(tasks[s].chunks)
                                   THEN "write" ELSE "chunks",
                          !.text = IF tasks[s].idx = Len(tasks[s].chunks)
                                     THEN strip(acc) ELSE EmptyStr]]
    /\ UNCHANGED <<values, located, split, nsubs, lastWrite, values0>>

\* an error handler that writes what was transcribed so far
stt_chunk_error_writes_partial(s) ==
    /\ tasks[s].pc = "chunks"
    /\ LET r == update_acell(values, tasks[s].row, strip(tasks[s].acc)) IN
         /\ values' = r.values
         /\ tasks' = [tasks EXCEPT ![s] = Finished(@, "failed", "stt")]
    /\ UNCHANGED <<located, split, files, nsubs, lastWrite, values0>>

\* the speech-to-text call on a chunk raises: nothing catches it
stt_chunk_error(s) ==
    /\ tasks[s].pc = "chunks"
    /\ tasks' = [tasks EXCEPT ![s] = Finished(@, "failed", "stt")]
    /\ UNCHANGED <<values, located, split, files, nsubs, lastWrite, values0>>

\* the single call on a file at or under the ceiling returns text t
stt_whole_ok(s, t) ==
    /\ tasks[s].pc = "whole"
    /\ tasks' = [tasks EXCEPT ![s] =
          [@ EXCEPT !.calls = <<[path |-> UploadPath(s), text |-> t]>>,
                    !.pc = "write",
                    !.text = t]]
    /\ UNCHANGED <<values, located, split, files, nsubs, lastWrite, values0>>

stt_whole_error(s) ==
    /\ tasks[s].pc = "whole"
    /\ tasks' = [tasks EXCEPT ![s] = Finished(@, "failed", "stt")]
    /\ UNCHANGED <<values, located, split, files, nsubs, lastWrite, values0>>

\* process_transcription after transcribe_audio has returned
write_back(s) ==
    /\ tasks[s].pc = "write"
    /\ LET r == update_acell(values, tasks[s].row, tasks[s].text) IN
       IF r.kind = "raise"
         THEN /\ tasks' = [tasks EXCEPT ![s] = Finished(@, "failed", "sheet")]
              /\ UNCHANGED <<values, lastWrite>>
         ELSE /\ values' = r.values
              /\ lastWrite' = [lastWrite EXCEPT ![tasks[s].row] =
                                  [s |-> s, text |-> tasks[s].text]]
              /\ tasks' = [tasks EXCEPT ![s] =
                               [Finished(@, "done", "none") EXCEPT !.wrote = TRUE]]
    /\ UNCHANGED <<located, split, files, nsubs, values0>>

\* a direct Record Locator call
locate(k) ==
    /\ located' = [called |-> TRUE, current_row |-> k,
                   result |-> get_next_unprocessed_record(values, k)]
    /\ UNCHANGED <<values, split, files, tasks, nsubs, lastWrite, values0>>

\* GET /: the first unprocessed record after the header
read_index == locate(1)

\* a direct Chunk Splitter call
run_split ==
    /\ split.result.kind = "pending"
    /\ split' = [split EXCEPT !.result = split_audio(split.audio, split.max_size_mb)]
    /\ UNCHANGED <<values, located, files, tasks, nsubs, lastWrite, values0>>

----------------------------------------------------------------------------
(* Inputs *)

FilledRow(f) == <<<<"u">>, <<"c">>, <<"d">>, <<"f">>, <<"l">>, f>>

\* rows of every shape get_all_values can hand over
RowPool ==
    { <<>>,
      <<<<"u">>, <<"c">>>>,
      <<<<"u">>, <<"c">>, <<"d">>, <<"f">>, <<"l">>>>,
      FilledRow(EmptyStr),
      FilledRow(<<"SP">>),
      FilledRow(<<"t">>),
      FilledRow(<<"SP", "t">>) }

Tables == UNION { [1..n -> RowPool] : n \in 0..MaxRows }

CurrentRows == (-(MaxRows + 1))..(MaxRows + 1)

Profiles ==
    { [frame_rate |-> 8000, frame_width |-> 1],
      [frame_rate |-> 44100, frame_width |-> 4],
      [frame_rate |-> 48000, frame_width |-> 2],
      [frame_rate |-> 384000, frame_width |-> 128] }

Ceilings == {-1, 0, 1, CeilingMb}

\* lengths around the chunk boundaries of a chunk length c
DurationsFor(c) ==
    IF c <= 0 THEN {0, 1, 1000}
    ELSE { n * c + r : n \in 0..(MaxChunks - 1), r \in {0, 1, c \div 2, c - 1} }
            \cup {MaxChunks * c}

AudioOf(p, len) ==
    [frame_rate |-> p.frame_rate, frame_width |-> p.frame_width, length_ms |-> len]

\* a 60 MiB, 2-channel, 44.1 kHz, 16-bit recording
ScenarioUpload ==
    [size |-> 60 * 1024 * 1024, frame_rate |-> 44100, frame_width |-> 4,
     length_ms |-> 356659]

Sizes == {CeilingMb * 1024 * 1024, CeilingMb * 1024 * 1024 + 1}

Uploads ==
    UNION { { [size |-> z, frame_rate |-> p.frame_rate, frame_width |-> p.frame_width,
               length_ms |-> len] :
                z \in Sizes, len \in DurationsFor(chunk_size_ms(p, CeilingMb)) } :
            p \in Profiles }

Texts == { EmptyStr, <<"a">>, <<"SP", "b">>, <<"c", "NL">> }

\* a header and data rows, the first data row processed or not
SysTables ==
    { <<FilledRow(<<"h">>), FilledRow(f)>> \o [i \in 1..(MaxRows - 2) |-> FilledRow(EmptyStr)] :
        f \in {EmptyStr, <<"t">>} }

\* a start row that makes the scan raise, the row before the header, the first
\* and the last data row, and the row below the table
SysCurrentRows == {-(MaxRows + 1), 0, 2, MaxRows, MaxRows + 1}

SysUploads ==
    { [size |-> 1000, frame_rate |-> 44100, frame_width |-> 4, length_ms |-> 3000],
      [size |-> 60 * 1024 * 1024, frame_rate |-> 44100, frame_width |-> 4,
       length_ms |-> 3000] }

SysTexts == { <<"a">>, <<"b">> }

----------------------------------------------------------------------------
(* Specifications *)

Idle ==
    /\ located = [called |-> FALSE, current_row |-> 0, result |-> [kind |-> "pending"]]
    /\ split = [audio |-> AudioOf([frame_rate |-> 1, frame_width |-> 1], 0),
                max_size_mb |-> CeilingMb, result |-> [kind |-> "idle"]]
    /\ files = {}
    /\ tasks = [s \in 1..MaxSubs |-> NoTask]
    /\ nsubs = 0
    /\ lastWrite = [r \in 1..(MaxRows + 1) |-> NoWrite]
    /\ values0 = values

\* the running system: index loads, /done submissions, deferred tasks
Init ==
    /\ values \in SysTables
    /\ Idle

Next ==
    \/ read_index
    \/ \E s \in 1..MaxSubs, k \in SysCurrentRows, u \in SysUploads : done(s, k, u)
    \/ \E s \in 1..MaxSubs : start_transcription(s)
    \/ \E s \in 1..MaxSubs, t \in SysTexts : stt_chunk_ok(s, t)
    \/ \E s \in 1..MaxSubs : stt_chunk_error(s)
    \/ \E s \in 1..MaxSubs, t \in SysTexts : stt_whole_ok(s, t)
    \/ \E s \in 1..MaxSubs : stt_whole_error(s)
    \/ \E s \in 1..MaxSubs : write_back(s)

Spec == Init /\ [][Next]_vars

\* the Record Locator on every table and start row
InitLocator ==
    /\ values \in Tables
    /\ Idle

NextLocator == \E k \in CurrentRows : locate(k)

SpecLocator == InitLocator /\ [][NextLocator]_vars

\* the Chunk Splitter on every recording and ceiling
InitSplit ==
    /\ values = <<FilledRow(<<"h">>)>>
    /\ \E p \in Profiles, m \in Ceilings :
         \E len \in DurationsFor(chunk_size_ms(p, m)) \cup {ScenarioUpload.length_ms} :
            split = [audio |-> AudioOf(p, len), max_size_mb |-> m,
                     result |-> [kind |-> "pending"]]
    /\ located = [called |-> FALSE, current_row |-> 0, result |-> [kind |-> "pending"]]
    /\ files = {}
    /\ tasks = [s \in 1..MaxSubs |-> NoTask]
    /\ nsubs = 0
    /\ lastWrite = [r \in 1..(MaxRows + 1) |-> NoWrite]
    /\ values0 = values

NextSplit == run_split

SpecSplit == InitSplit /\ [][NextSplit]_vars

\* one submission with every recording and every service answer
InitTranscribe ==
    /\ values = <<FilledRow(<<"h">>), FilledRow(EmptyStr)>>
    /\ Idle

NextTranscribe ==
    \/ \E u \in Uploads \cup {ScenarioUpload} : done(1, 2, u)
    \/ start_transcription(1)
    \/ \E t \in Texts : stt_chunk_ok(1, t)
    \/ stt_chunk_error(1)
    \/ \E t \in Texts : stt_whole_ok(1, t)
    \/ stt_whole_error(1)
    \/ write_back(1)

SpecTranscribe == InitTranscribe /\ [][NextTranscribe]_vars

----------------------------------------------------------------------------
(* Properties *)

Smallest(S) == CHOOSE i \in S : \A j \in S : i <= j

\* column F absent, or nothing but whitespace in it
BlankOrMissingF(row_values) ==
    \/ Len(row_values) < 6
    \/ \A c \in 1..Len(row_values[6]) : row_values[6][c] \in Whitespace

Candidates(vals, k) == { i \in (k + 1)..Len(vals) : BlankOrMissingF(vals[i]) }

ColumnOrEmpty(row_values, c) ==
    IF c \in DOMAIN row_values THEN row_values[c] ELSE EmptyStr

\* the record of row i with absent columns read as empty strings
IsRecordOfRow(rec, vals, i) ==
    /\ rec.kind = "record"
    /\ rec.row = i
    /\ rec.url = ColumnOrEmpty(vals[i], 1)
    /\ rec.company = ColumnOrEmpty(vals[i], 2)
    /\ rec.connected_on = ColumnOrEmpty(vals[i], 3)
    /\ rec.first_name = ColumnOrEmpty(vals[i], 4)
    /\ rec.last_name = ColumnOrEmpty(vals[i], 5)
    /\ rec.recording = ColumnOrEmpty(vals[i], 6)

\* C1: for a start row k >= 1 the Record Locator returns the record of the
\* smallest row i with k < i <= N whose column F is missing or blank, absent
\* columns reported as empty strings, and the no-record sentinel when there is
\* no such row (k >= N included); it never raises.
C1_LocatorReturnsFirstUnprocessed ==
    (located.called /\ located.current_row >= 1) =>
        LET cands == Candidates(values, located.current_row) IN
        IF cands = {} THEN located.result.kind = "none"
        ELSE IsRecordOfRow(located.result, values, Smallest(cands))

\* a call that skipped a processed row and returned a row with fewer than 6 columns
C1_Witness ==
    /\ located.called
    /\ located.current_row >= 1
    /\ located.result.kind = "record"
    /\ located.result.row > located.current_row + 1
    /\ Len(values[located.result.row]) < 6
    /\ Len(values[located.result.row]) > 0

\* C2: for every start row k, 0 and negative k included, the Record Locator
\* never returns row 1 (the header) or a row index below 2.
C2_HeaderNeverReturned ==
    located.called =>
        ~(located.result.kind = "record" /\ located.result.row < 2)

\* C3: for a non-empty recording split_audio returns at least one chunk and
\* does not fail on a zero or negative step.
C3_SplitNeverEmptyNorRaises ==
    (split.result.kind \in {"ok", "raise"} /\ split.audio.length_ms > 0) =>
        (split.result.kind = "ok" /\ Len(split.result.chunks) >= 1)

RECURSIVE TotalLength(_)
TotalLength(chunks) ==
    IF chunks = <<>> THEN 0
    ELSE (Head(chunks).to - Head(chunks).from) + TotalLength(Tail(chunks))

\* C5: for a recording of length T and a positive chunk length C the chunks
\* are the consecutive slices [0,C), [C,2C), ... up to T: no gap, no overlap,
\* lengths summing to T, every chunk but the last of length C, the last of
\* length in (0, C], chunk j named j in list order.
C5_ChunksPartitionRecording ==
    LET c == chunk_size_ms(split.audio, split.max_size_mb)
        total == split.audio.length_ms
        ch == split.result.chunks
        n == Len(ch)
    IN (split.result.kind \in {"ok", "raise"} /\ c > 0) =>
        /\ split.result.kind = "ok"
        /\ (n = 0) <=> (total = 0)
        /\ n > 0 => (ch[1].from = 0 /\ ch[n].to = total)
        /\ \A j \in 1..(n - 1) : ch[j].to = ch[j + 1].from
        /\ \A j \in 1..(n - 1) : ch[j].to - ch[j].from = c
        /\ n > 0 => (ch[n].to - ch[n].from) \in 1..c
        /\ \A j \in 1..n : ch[j].name = j - 1 /\ ch[j].from = (j - 1) * c
        /\ TotalLength(ch) = total

\* three chunks, the last one shorter than the others
C5_Witness ==
    /\ split.result.kind = "ok"
    /\ Len(split.result.chunks) = 3
    /\ split.result.chunks[3].to - split.result.chunks[3].from
         < split.result.chunks[1].to - split.result.chunks[1].from

RECURSIVE JoinNewline(_)
JoinNewline(texts) ==
    IF texts = <<>> THEN EmptyStr
    ELSE IF Len(texts) = 1 THEN texts[1]
    ELSE texts[1] \o <<"NL">> \o JoinNewline(Tail(texts))

CallTexts(t) == [j \in 1..Len(t.calls) |-> t.calls[j].text]

\* transcribe_audio has just returned on a recording over the ceiling
ReturnedOverCeiling(s) == tasks[s].pc = "write" /\ OverCeiling(tasks[s].upload)

\* one speech-to-text call per chunk, in chunk order
OneCallPerChunkInOrder(s) ==
    /\ Len(tasks[s].calls) = Len(tasks[s].chunks)
    /\ \A j \in 1..Len(tasks[s].calls) :
         /\ tasks[s].calls[j].path = ChunkPath(s, tasks[s].chunks[j])
         /\ tasks[s].chunks[j].name = j - 1
    /\ \A j \in 1..(Len(tasks[s].chunks) - 1) :
         tasks[s].chunks[j].from < tasks[s].chunks[j + 1].from

ChunkFilesOf(s) == { f \in files : Len(f) = 2 /\ f[1] = s }

\* C6: once transcribe_audio has finished on a recording over the ceiling, by
\* returning or by raising, every chunk file is deleted and the source file is
\* still there.
C6_ChunkFilesDeletedSourceKept ==
    \A s \in 1..MaxSubs : tasks[s].pc \in {"write", "done", "failed"} =>
        /\ ChunkFilesOf(s) = {}
        /\ UploadPath(s) \in files

\* what the caller is to get for start row k on the grid vals
ExpectedResponse(vals, k) ==
    IF k >= 1
      THEN IF Candidates(vals, k) = {} THEN [kind |-> "message"]
           ELSE RecordOf(Smallest(Candidates(vals, k)), vals[Smallest(Candidates(vals, k))])
      ELSE ResponseFor(get_next_unprocessed_record(vals, k))

\* C7: the answer to a /done submission with current row k is the Record
\* Locator's result for k on the table as it is then (the message for the
\* sentinel), and it is there before the submission's task has made any
\* speech-to-text call or written anything.
C7_ResponseBeforeDeferredWork ==
    /\ [][\A s \in 1..MaxSubs :
            (tasks[s].pc = "none" /\ tasks'[s].pc # "none") =>
               /\ tasks'[s].response.kind # "pending"
               /\ tasks'[s].response = ExpectedResponse(values', tasks'[s].row)
               /\ tasks'[s].pc \in {"scheduled", "dropped"}
               /\ tasks'[s].calls = <<>>
               /\ ~tasks'[s].wrote
               /\ values' = values
               /\ lastWrite' = lastWrite]_vars
    /\ [](\A s \in 1..MaxSubs :
            (tasks[s].calls # <<>> \/ tasks[s].wrote \/ tasks[s].pc # "none")
                => tasks[s].response.kind # "pending")

\* a caller that got the next record although the task failed afterwards
C7_Witness ==
    /\ tasks[1].pc = "failed"
    /\ tasks[1].failure = "stt"
    /\ tasks[1].response.kind = "record"
    /\ tasks[1].response.row = tasks[1].row + 1

\* C8: the table keeps its set of rows and every cell outside column F.
C8_RowsAndOtherCellsPreserved ==
    /\ Len(values) = Len(values0)
    /\ \A i \in 1..Len(values0) : \A c \in 1..5 :
         i <= Len(values) =>
            ColumnOrEmpty(values[i], c) = ColumnOrEmpty(values0[i], c)

FieldF(vals, r) == IF r <= Len(vals) THEN ColumnOrEmpty(vals[r], 6) ELSE EmptyStr

\* C9: write-backs are neither ordered nor locked: column F of a row holds
\* the text of whichever write-back to that row executed last.
C9_LastWriteWins ==
    \A r \in DOMAIN lastWrite :
        lastWrite[r].s # 0 => FieldF(values, r) = lastWrite[r].text

\* two submissions for the same row, both done, the earlier one's write last
C9_Witness ==
    /\ tasks[1].pc = "done"
    /\ tasks[2].pc = "done"
    /\ tasks[1].row = tasks[2].row
    /\ tasks[1].row \in 2..MaxRows
    /\ lastWrite[tasks[1].row] = [s |-> 1, text |-> <<"a">>]
    /\ FieldF(values, tasks[1].row) = <<"a">>

\* C10: a task whose speech-to-text call failed, on the whole file or on any
\* chunk, ends with the error and writes nothing: the table is as it was.
C10_NoWriteBackAfterSttFailure ==
    \A s \in 1..MaxSubs : tasks[s].failure = "stt" =>
        /\ tasks[s].pc = "failed"
        /\ ~tasks[s].wrote
        /\ values = values0
        /\ lastWrite = [r \in DOMAIN lastWrite |-> NoWrite]

\* the failure came on the second chunk, after the first was transcribed and deleted
C10_Witness ==
    /\ tasks[1].failure = "stt"
    /\ ChunkPath(1, [name |-> 0]) \notin files
    /\ ChunkPath(1, [name |-> 1]) \in files
    /\ BlankOrMissingF(values[tasks[1].row])

====
